---- MODULE Spec2Model ----
(***************************************************************************)
(* Block-cipher recommender (src/tree.py): load_table, normalize_value,    *)
(* ask_question, score_ciphers and main, as state machines.                *)
(*                                                                         *)
(* Python values are modelled as follows.  A str is a TLA+ string; the     *)
(* methods str.lower and str.strip are tables over the strings used here.  *)
(* A list is a sequence.  A dict is a sequence of <<key, value>> pairs in  *)
(* insertion order (dicts keep insertion order); a CSV row dict, whose     *)
(* order is never observed, is a function from column name to value.       *)
(***************************************************************************)
EXTENDS Integers, Sequences, FiniteSets, TLC

VARIABLES
    pc,                 \* position of the running function
    file,               \* the CSV file on disk (main, load_table)
    ciphers,            \* list of row dicts (load_table's result)
    answers,            \* user_answers / answers: dict attribute -> answer
    q,                  \* index of the question being asked (main's for loop)
    options,            \* ask_question's options argument
    response,           \* ask_question's response
    answer,             \* value returned by ask_question
    prompts,            \* number of prompts printed by ask_question
    cipher_idx,         \* score_ciphers: position of the outer loop
    attr_idx,           \* score_ciphers: position of the inner loop
    scores,             \* score_ciphers: dict Cipher -> score
    sorted_ciphers,     \* main: sorted(scores.items(), ...)
    printed,            \* main: the recommendation lines printed
    attribute,          \* normalize_value's attribute argument
    value,              \* normalize_value's value argument
    normalized_values   \* normalize_value's result

vars == <<pc, file, ciphers, answers, q, options, response, answer, prompts,
          cipher_idx, attr_idx, scores, sorted_ciphers, printed,
          attribute, value, normalized_values>>

\* Bounds of the model.
MaxPrompts == 3
MaxCiphers == 2
MaxRows == 3

Range(s) == {s[k] : k \in 1..Len(s)}

\* Python's None.
None == "<None>"

(***************************************************************************)
(* str.lower() and str.strip() on the strings the model uses.              *)
(***************************************************************************)
lower(s) ==
    CASE s = "High" -> "high"
      [] s = "HIGH" -> "high"
      [] s = "Low" -> "low"
      [] s = "Medium" -> "medium"
      [] s = "Very High" -> "very high"
      [] s = "Yes" -> "yes"
      [] s = "I don't know" -> "i don't know"
      [] s = "Maybe" -> "maybe"
      [] s = "AES" -> "aes"
      [] s = "Blowfish" -> "blowfish"
      [] s = "Security Level" -> "security level"
      [] s = " Medium " -> " medium "
      [] s = " Yes " -> " yes "
      [] OTHER -> s

strip(s) ==
    CASE s = " Medium " -> "Medium"
      [] s = " Yes " -> "Yes"
      [] s = "high " -> "high"
      [] s = " I don't know" -> "I don't know"
      [] OTHER -> s

(***************************************************************************)
(* normalize_value                                                         *)
(***************************************************************************)
mappings ==
    ("Security Level" :>
        (("high" :> <<"high", "very high">>) @@ ("medium" :> <<"medium">>)
            @@ ("low" :> <<"low">>)))
    @@ ("Speed" :>
        (("high" :> <<"high">>) @@ ("medium" :> <<"medium">>)
            @@ ("low" :> <<"low">>)))
    @@ ("Memory Usage" :>
        (("high" :> <<"high">>) @@ ("medium" :> <<"medium">>)
            @@ ("low" :> <<"low">>)))
    @@ ("Hardware Compatibility" :>
        (("high" :> <<"yes">>) @@ ("low" :> <<"no">>)))
    @@ ("Energy Efficiency" :>
        (("high" :> <<"high">>) @@ ("medium" :> <<"medium">>)
            @@ ("low" :> <<"low">>)))

\* Faulty variant: the table is looked up with the raw answer, not the lower-cased one.
normalize_value_raw_lookup(attr, val) ==
    IF attr \in DOMAIN mappings /\ val \in DOMAIN mappings[attr]
    THEN mappings[attr][val]
    ELSE <<lower(val)>>

normalize_value(attr, val) ==
    IF attr \in DOMAIN mappings /\ lower(val) \in DOMAIN mappings[attr]
    THEN mappings[attr][lower(val)]
    ELSE <<lower(val)>>

(***************************************************************************)
(* ask_question                                                            *)
(***************************************************************************)
\* options=None is [given |-> FALSE]; a list argument is [given |-> TRUE].
NoOptions == [given |-> FALSE, list |-> <<>>]

\* Python truthiness of options: None and the empty list are both false.
Truthy(opts) == opts.given /\ opts.list # <<>>

\* Faulty variant: a response is accepted without being compared to the allowed set.
IsValid_any(opts, resp) == resp # ""

\* The two return conditions of the loop body.
IsValid(opts, resp) ==
    \/ ~Truthy(opts) /\ resp \in {"yes", "no", "i don't know"}
    \/ Truthy(opts) /\ resp \in {lower(opts.list[k]) : k \in 1..Len(opts.list)}

\* One line typed at the prompt.
RawInputs ==
    {"yes", "no", "i don't know", " Yes ", " I don't know", "High", "high ",
     "Medium", "Maybe", "AES", ""}

\* print the question; response = input("> ").strip().lower()
AskInput(r) ==
    /\ pc = "prompt"
    /\ response' = lower(strip(r))
    /\ pc' = "validate"

\* return response if it is valid, else print "Invalid input" and loop
AskValidate ==
    /\ pc = "validate"
    /\ IF IsValid(options, response)
       THEN answer' = response /\ pc' = "returned"
       ELSE answer' = answer /\ pc' = "prompt"

(***************************************************************************)
(* Values of the variables a specification does not use, and the groups    *)
(* of variables its actions leave unchanged.                               *)
(***************************************************************************)
NoFile == [exists |-> FALSE, rows |-> <<>>]

normVars == <<attribute, value, normalized_values>>
askVars == <<options, response, answer>>
dataVars == <<file, ciphers, answers, q>>
scoreVars == <<cipher_idx, attr_idx, scores>>
reportVars == <<sorted_ciphers, printed>>

IdleNorm == attribute = "" /\ value = "" /\ normalized_values = <<>>
IdleAsk == options = NoOptions /\ response = "" /\ answer = "" /\ prompts = 0
IdleData == file = NoFile /\ ciphers = <<>> /\ answers = <<>> /\ q = 0
IdleScore == cipher_idx = 0 /\ attr_idx = 0 /\ scores = <<>>
IdleReport == sorted_ciphers = <<>> /\ printed = <<>>

(***************************************************************************)
(* SpecNorm: one call normalize_value(attribute, value).                   *)
(***************************************************************************)
NormAttributes ==
    {"Security Level", "Speed", "Memory Usage", "Hardware Compatibility",
     "Energy Efficiency", "Cipher"}

NormValues ==
    {"high", "High", "HIGH", "medium", "Medium", "low", "Low", "unknown",
     "yes", "Very High"}

NormInit ==
    /\ pc = "normalize"
    /\ attribute \in NormAttributes
    /\ value \in NormValues
    /\ normalized_values = <<>>
    /\ IdleAsk /\ IdleData /\ IdleScore /\ IdleReport

Normalize ==
    /\ pc = "normalize"
    /\ normalized_values' = normalize_value(attribute, value)
    /\ pc' = "normalized"
    /\ UNCHANGED <<attribute, value, askVars, prompts, dataVars, scoreVars,
                   reportVars>>

NormNext == Normalize

SpecNorm == NormInit /\ [][NormNext]_vars

\* The match set the documentation gives for (attribute, answer).
DocumentedMatchSet(attr, val) ==
    CASE attr = "Security Level" /\ lower(val) = "high" -> {"high", "very high"}
      [] attr = "Hardware Compatibility" /\ lower(val) = "high" -> {"yes"}
      [] attr = "Hardware Compatibility" /\ lower(val) = "low" -> {"no"}
      [] OTHER -> {lower(val)}

\* C7: normalize_value returns exactly the documented match set for a mapped
\* answer (Security Level high -> {high, very high}; Hardware Compatibility
\* high -> {yes}, low -> {no}; every other entry maps to itself), and the
\* one-element set of the lower-cased answer otherwise; the answer's case
\* does not matter.
C7_NormalizeDocumented ==
    pc = "normalized" =>
        /\ Range(normalized_values) = DocumentedMatchSet(attribute, value)
        /\ Len(normalized_values) = Cardinality(Range(normalized_values))

C7_Witness ==
    /\ pc = "normalized"
    /\ attribute = "Hardware Compatibility"
    /\ value = "High"
    /\ normalized_values = <<"yes">>

(***************************************************************************)
(* SpecAsk: one call ask_question(question, options).                      *)
(***************************************************************************)
OptionLists ==
    {NoOptions,
     [given |-> TRUE, list |-> <<>>],
     [given |-> TRUE, list |-> <<"High", "Medium", "Low">>],
     [given |-> TRUE, list |-> <<"AES", "Blowfish">>]}

AskInit ==
    /\ pc = "prompt"
    /\ options \in OptionLists
    /\ response = ""
    /\ answer = ""
    /\ prompts = 0
    /\ IdleNorm /\ IdleData /\ IdleScore /\ IdleReport

\* One prompt and one line of input; prompts counts the prompts printed.
AskPrompt(r) ==
    /\ prompts < MaxPrompts
    /\ AskInput(r)
    /\ prompts' = prompts + 1
    /\ UNCHANGED <<options, answer, normVars, dataVars, scoreVars, reportVars>>

AskCheck ==
    /\ AskValidate
    /\ UNCHANGED <<options, response, prompts, normVars, dataVars, scoreVars,
                   reportVars>>

AskNext == (\E r \in RawInputs : AskPrompt(r)) \/ AskCheck

SpecAsk == AskInit /\ [][AskNext]_vars

\* The accepted set: yes/no/i don't know when no option list is given (None,
\* or a list with no option in it), else the lower-cased options.
AcceptedSet(opts) ==
    IF opts.given /\ Len(opts.list) > 0
    THEN {lower(opts.list[k]) : k \in 1..Len(opts.list)}
    ELSE {"yes", "no", "i don't know"}

\* C8: ask_question returns exactly when the stripped, lower-cased input is
\* in the accepted set, returning that input; any other input leads to
\* another prompt, so the call returns at the first valid input and not
\* before one.
C8_AskReturnsOnlyValid ==
    [][/\ pc = "validate" /\ response \in AcceptedSet(options)
            => pc' = "returned" /\ answer' = response
       /\ pc = "validate" /\ response \notin AcceptedSet(options)
            => pc' = "prompt" /\ answer' = answer
       /\ pc' = "returned"
            => answer' \in AcceptedSet(options') /\ answer' = response']_vars

C8_Witness ==
    /\ pc = "returned"
    /\ prompts >= 2
    /\ options.given /\ options.list = <<"High", "Medium", "Low">>
    /\ answer = "medium"

(***************************************************************************)
(* csv.DictReader and the rows of the table                                *)
(***************************************************************************)
required_columns ==
    <<"Cipher", "Speed", "Security Level", "Memory Usage",
      "Hardware Compatibility", "Energy Efficiency">>

\* The dict DictReader builds from one row: dict(zip(fieldnames, row)); a
\* short row's missing columns hold None (restval), a long row's extra
\* fields go, as a list, under the key None (restkey).
DictRow(fieldnames, row) ==
    LET lf == Len(fieldnames)
        lr == Len(row)
        keys == Range(fieldnames) \cup (IF lr > lf THEN {None} ELSE {})
        Idx(k) == CHOOSE n \in 1..lf : fieldnames[n] = k
    IN  [k \in keys |->
            IF k \in Range(fieldnames)
            THEN IF Idx(k) <= lr THEN row[Idx(k)] ELSE None
            ELSE SubSeq(row, lf + 1, lr)]

RECURSIVE DictRows(_, _)
DictRows(fieldnames, rows) ==
    IF rows = <<>> THEN <<>>
    ELSE IF Head(rows) = <<>>
         THEN DictRows(fieldnames, Tail(rows))      \* blank lines are skipped
         ELSE <<DictRow(fieldnames, Head(rows))>>
                  \o DictRows(fieldnames, Tail(rows))

\* [row for row in csv.DictReader(csv_file)]: the first row is the header.
DictReader(rows) ==
    IF rows = <<>> THEN <<>> ELSE DictRows(Head(rows), Tail(rows))

\* Rows of the table, in the order of required_columns.
RowAES == <<"AES", "medium", "high", "low", "yes", "high">>
RowBlowfish == <<"Blowfish", "low", "low", "low", "no", "low">>
RowTwofish == <<"Twofish", "high", "medium", "medium", "yes", "medium">>
RowAES2 == <<"AES", " Medium ", "Very High", "high", " Yes ", "unknown">>
RowShort == <<"DES", "low">>

(***************************************************************************)
(* Dicts as sequences of <<key, value>> pairs in insertion order           *)
(***************************************************************************)
DictKeys(d) == [k \in 1..Len(d) |-> d[k][1]]

DictGet(d, key) == d[CHOOSE k \in 1..Len(d) : d[k][1] = key][2]

\* d[key] = v: a new key is appended, an old one keeps its place.
DictSet(d, key, v) ==
    IF key \in Range(DictKeys(d))
    THEN [k \in 1..Len(d) |-> IF d[k][1] = key THEN <<key, v>> ELSE d[k]]
    ELSE Append(d, <<key, v>>)

\* d[key] += delta
DictAdd(d, key, delta) ==
    [k \in 1..Len(d) |->
        IF d[k][1] = key THEN <<key, d[k][2] + delta>> ELSE d[k]]

(***************************************************************************)
(* score_ciphers                                                           *)
(***************************************************************************)
exact_match_score == 3
weak_match_score == 1
opposite_match_score == -2

RECURSIVE InitScoresFrom(_, _)
InitScoresFrom(cs, d) ==
    IF cs = <<>> THEN d
    ELSE InitScoresFrom(Tail(cs), DictSet(d, Head(cs)["Cipher"], 0))

\* Faulty variant: the first record is left out of the initial score map.
InitScores_skip_first(cs) == InitScoresFrom(Tail(cs), <<>>)

\* scores = {cipher["Cipher"]: 0 for cipher in ciphers}
InitScores(cs) == InitScoresFrom(cs, <<>>)

\* Faulty variant: the skip test compares with the untranslated answer.
Skipped_raw_answer(val) == val = "i don't know"

\* if value == "unknown": continue
Skipped(val) == val = "unknown"

\* cipher[attribute].strip() raises AttributeError on None.
ValueRaises(cipher, attr) == cipher[attr] = None

\* Faulty variant: the candidate's value is lower-cased but not stripped.
ScoreDelta_no_strip(cipher, attr, val) ==
    LET nvs == normalize_value(attr, val)
        cipher_value == lower(cipher[attr])
    IN  IF cipher_value \in Range(nvs) THEN exact_match_score
        ELSE IF lower(val) = "high" /\ cipher_value = "medium"
             THEN weak_match_score
        ELSE IF lower(val) = "low" /\ cipher_value = "high"
             THEN opposite_match_score
        ELSE 0

\* The if/elif/elif chain: what one answered attribute adds to the score.
ScoreDelta(cipher, attr, val) ==
    LET nvs == normalize_value(attr, val)
        cipher_value == lower(strip(cipher[attr]))
    IN  IF cipher_value \in Range(nvs) THEN exact_match_score
        ELSE IF lower(val) = "high" /\ cipher_value = "medium"
             THEN weak_match_score
        ELSE IF lower(val) = "low" /\ cipher_value = "high"
             THEN opposite_match_score
        ELSE 0

\* The body of the inner loop for one record and one (attribute, value).
StepScores(sc, cipher, item) ==
    IF Skipped(item[2]) THEN sc
    ELSE DictAdd(sc, cipher["Cipher"], ScoreDelta(cipher, item[1], item[2]))

ScoreInit ==
    /\ pc = "score_init"
    /\ scores' = InitScores(ciphers)
    /\ cipher_idx' = 1
    /\ attr_idx' = 1
    /\ pc' = IF ciphers = <<>> \/ answers = <<>> THEN "scored" ELSE "score_loop"

ScoreStep ==
    /\ pc = "score_loop"
    /\ LET cipher == ciphers[cipher_idx]
           item == answers[attr_idx]
           last_attr == attr_idx = Len(answers)
       IN  IF ~Skipped(item[2]) /\ ValueRaises(cipher, item[1])
           THEN /\ pc' = "raised"
                /\ UNCHANGED <<scores, cipher_idx, attr_idx>>
           ELSE /\ scores' = StepScores(scores, cipher, item)
                /\ attr_idx' = IF last_attr THEN 1 ELSE attr_idx + 1
                /\ cipher_idx' = IF last_attr THEN cipher_idx + 1 ELSE cipher_idx
                /\ pc' = IF last_attr /\ cipher_idx = Len(ciphers)
                         THEN "scored" ELSE "score_loop"

\* The whole call, for callers that take it as one step.
RECURSIVE ScoreFrom(_, _, _, _, _)
ScoreFrom(cs, ans, i, j, sc) ==
    IF i > Len(cs) THEN sc
    ELSE IF j > Len(ans) THEN ScoreFrom(cs, ans, i + 1, 1, sc)
    ELSE ScoreFrom(cs, ans, i, j + 1, StepScores(sc, cs[i], ans[j]))

score_ciphers(cs, ans) == ScoreFrom(cs, ans, 1, 1, InitScores(cs))

score_ciphers_raises(cs, ans) ==
    \E i \in 1..Len(cs), j \in 1..Len(ans) :
        ~Skipped(ans[j][2]) /\ ValueRaises(cs[i], ans[j][1])

(***************************************************************************)
(* SpecScore: one call score_ciphers(ciphers, answers), one inner-loop     *)
(* iteration per step.  The records hold strings in every column; the      *)
(* answers are keyed by the five attributes in the order main asks them.   *)
(***************************************************************************)
\* The attributes of main's questions, in order.
QuestionAttributes ==
    <<"Security Level", "Speed", "Memory Usage", "Hardware Compatibility",
      "Energy Efficiency">>

ScoreRecords ==
    {DictRow(required_columns, r) :
        r \in {RowAES, RowBlowfish, RowTwofish, RowAES2}}

ScoreDatasets ==
    UNION {[1..n -> ScoreRecords] : n \in 1..MaxCiphers}

ScoreAnswerValues(attr) ==
    IF attr \in {"Security Level", "Hardware Compatibility"}
    THEN {"High", "Low", "medium", "unknown"}
    ELSE {"High", "Low", "unknown"}

ScoreAnswers ==
    {[k \in 1..Len(QuestionAttributes) |-> <<QuestionAttributes[k], f[k]>>] :
        f \in {g \in [1..Len(QuestionAttributes) ->
                        {"High", "Low", "medium", "unknown"}] :
                 \A k \in 1..Len(QuestionAttributes) :
                     g[k] \in ScoreAnswerValues(QuestionAttributes[k])}}

ScoreInitState ==
    /\ pc = "score_init"
    /\ ciphers \in ScoreDatasets
    /\ answers \in ScoreAnswers
    /\ file = NoFile /\ q = 0
    /\ IdleScore /\ IdleNorm /\ IdleAsk /\ IdleReport

ScoreBegin ==
    /\ ScoreInit
    /\ UNCHANGED <<dataVars, askVars, prompts, normVars, reportVars>>

ScoreIterate ==
    /\ ScoreStep
    /\ UNCHANGED <<dataVars, askVars, prompts, normVars, reportVars>>

ScoreNext == ScoreBegin \/ ScoreIterate

SpecScore == ScoreInitState /\ [][ScoreNext]_vars

AnswerValues == [k \in 1..Len(answers) |-> answers[k][2]]

\* C1: for every candidate and every (attribute, answer) with an answer
\* other than "unknown", one inner-loop iteration applies exactly one of
\* +3 (the candidate's stripped, lower-cased value is in the normalized
\* match set), else +1 (answer high, value medium), else -2 (answer low,
\* value high), else 0, to that candidate's score and to no other.
C1_ScoringRule ==
    [][pc = "score_loop" /\ answers[attr_idx][2] # "unknown" =>
        LET cipher == ciphers[cipher_idx]
            attr == answers[attr_idx][1]
            val == answers[attr_idx][2]
            cv == lower(strip(cipher[attr]))
            outcome ==
                IF cv \in Range(normalize_value(attr, val)) THEN 3
                ELSE IF lower(val) = "high" /\ cv = "medium" THEN 1
                ELSE IF lower(val) = "low" /\ cv = "high" THEN -2
                ELSE 0
        IN  /\ DictKeys(scores') = DictKeys(scores)
            /\ \A name \in Range(DictKeys(scores)) :
                  DictGet(scores', name) =
                      DictGet(scores, name)
                          + (IF name = cipher["Cipher"] THEN outcome ELSE 0)
      ]_vars

\* One record scored with +3 (Security Level), +1 (Speed) and -2 (Memory).
C1_Witness ==
    /\ pc = "scored"
    /\ ciphers = <<DictRow(required_columns, RowAES2)>>
    /\ AnswerValues = <<"High", "High", "Low", "unknown", "unknown">>
    /\ scores = <<<<"AES", 2>>>>

\* What a record's own attributes contribute under the answers.
RECURSIVE OwnScore(_, _)
OwnScore(cipher, ans) ==
    IF ans = <<>> THEN 0
    ELSE (IF Head(ans)[2] = "unknown" THEN 0
          ELSE ScoreDelta(cipher, Head(ans)[1], Head(ans)[2]))
         + OwnScore(cipher, Tail(ans))

\* C2: the score reported for every record, also when two records share a
\* Cipher name, is what that record's own answered attributes contribute,
\* once each, with nothing from any other record.
C2_OncePerRecord ==
    pc = "scored" =>
        \A n \in 1..Len(ciphers) :
            DictGet(scores, ciphers[n]["Cipher"]) = OwnScore(ciphers[n], answers)

\* C3: if every answer is "unknown", every candidate's score is 0.
C3_AllUnknownZero ==
    pc = "scored" /\ (\A k \in 1..Len(answers) : answers[k][2] = "unknown")
        => \A k \in 1..Len(scores) : scores[k][2] = 0

C3_Witness ==
    /\ pc = "scored"
    /\ \A k \in 1..Len(answers) : answers[k][2] = "unknown"
    /\ ciphers = <<DictRow(required_columns, RowBlowfish),
                   DictRow(required_columns, RowAES2)>>
    /\ scores = <<<<"Blowfish", 0>>, <<"AES", 0>>>>

\* C4: after score_ciphers completes, the keys of the score map are exactly
\* the Cipher names of the dataset, each with an integer score.
C4_ScoreMapKeys ==
    pc = "scored" =>
        /\ Range(DictKeys(scores))
              = {ciphers[n]["Cipher"] : n \in 1..Len(ciphers)}
        /\ Cardinality(Range(DictKeys(scores))) = Len(scores)
        /\ \A k \in 1..Len(scores) : scores[k][2] \in Int

C4_Witness ==
    /\ pc = "scored"
    /\ ciphers = <<DictRow(required_columns, RowAES),
                   DictRow(required_columns, RowBlowfish)>>
    /\ DictGet(scores, "AES") = 3
    /\ DictGet(scores, "Blowfish") = 0

(***************************************************************************)
(* load_table                                                              *)
(***************************************************************************)
\* A file is absent, or holds rows of fields, the first row the header.
EmptyFile == [exists |-> TRUE, rows |-> <<>>]

\* Every exception (no file, ciphers[0] of an empty list, a missing column)
\* is caught and gives []; only the first row's keys are looked at.
load_table(f) ==
    IF ~f.exists THEN <<>>
    ELSE LET rows == DictReader(f.rows)
         IN  IF rows = <<>> THEN <<>>
             ELSE IF \E n \in 1..Len(required_columns) :
                         required_columns[n] \notin DOMAIN rows[1]
                  THEN <<>>
                  ELSE rows

(***************************************************************************)
(* main                                                                    *)
(***************************************************************************)
\* Faulty variant: the translations of "yes" and "no" are swapped.
translate_swapped(ans) ==
    CASE ans = "yes" -> "Low"
      [] ans = "no" -> "High"
      [] ans = "i don't know" -> "unknown"
      [] OTHER -> ans

\* {"yes": "High", "no": "Low", "i don't know": "unknown"}.get(answer, answer)
translate(ans) ==
    CASE ans = "yes" -> "High"
      [] ans = "no" -> "Low"
      [] ans = "i don't know" -> "unknown"
      [] OTHER -> ans

\* Number of leading items of a descending list that stay before item x.
RECURSIVE KeepBefore(_, _)
KeepBefore(items, x) ==
    IF items # <<>> /\ Head(items)[2] >= x[2]
    THEN 1 + KeepBefore(Tail(items), x)
    ELSE 0

\* Faulty variant: an item goes before the items of equal score (what reversing an
\* ascending sort does).
RECURSIVE KeepBeforeStrict(_, _)
KeepBeforeStrict(items, x) ==
    IF items # <<>> /\ Head(items)[2] > x[2]
    THEN 1 + KeepBeforeStrict(Tail(items), x)
    ELSE 0

InsertDesc_ties_reversed(items, x) ==
    LET n == KeepBeforeStrict(items, x)
    IN  SubSeq(items, 1, n) \o <<x>> \o SubSeq(items, n + 1, Len(items))

\* Stable insertion: x goes after every item whose score is >= its own.
InsertDesc(items, x) ==
    LET n == KeepBefore(items, x)
    IN  SubSeq(items, 1, n) \o <<x>> \o SubSeq(items, n + 1, Len(items))

RECURSIVE SortFrom(_, _)
SortFrom(items, acc) ==
    IF items = <<>> THEN acc
    ELSE SortFrom(Tail(items), InsertDesc(acc, Head(items)))

\* sorted(scores.items(), key=lambda x: x[1], reverse=True): a stable sort.
sorted_desc(items) == SortFrom(items, <<>>)

\* next((c.get("Explanation", default) for c in ciphers if c["Cipher"] == name),
\*      default)
Explanation(cs, name) ==
    LET hits == {n \in 1..Len(cs) : cs[n]["Cipher"] = name}
        first == CHOOSE n \in hits : \A m \in hits : n <= m
    IN  IF hits = {} THEN "No explanation available"
        ELSE IF "Explanation" \in DOMAIN cs[first] THEN cs[first]["Explanation"]
        ELSE "No explanation available"

Min(a, b) == IF a <= b THEN a ELSE b

\* ciphers = load_table(table_path); if not ciphers: return
MainLoad ==
    /\ pc = "load"
    /\ ciphers' = load_table(file)
    /\ IF ciphers' = <<>>
       THEN pc' = "exit" /\ q' = q
       ELSE pc' = "ask" /\ q' = 1
    /\ answers' = <<>>
    /\ UNCHANGED <<file, askVars, prompts, scoreVars, reportVars, normVars>>

\* One prompt of ask_question(q["question"]) inside main's for loop: an
\* invalid line prompts again; a valid one is returned, translated and
\* stored, and the loop moves to the next question.
MainAsk(r) ==
    /\ pc = "ask"
    /\ response' = lower(strip(r))
    /\ IF IsValid(options, response')
       THEN /\ answer' = response'
            /\ answers' = DictSet(answers, QuestionAttributes[q],
                                  translate(response'))
            /\ q' = q + 1
            /\ pc' = IF q = Len(QuestionAttributes) THEN "score" ELSE "ask"
       ELSE UNCHANGED <<answer, answers, q, pc>>
    /\ UNCHANGED <<file, ciphers, options, prompts, scoreVars, reportVars,
                   normVars>>

\* scores = score_ciphers(ciphers, user_answers)
MainScore ==
    /\ pc = "score"
    /\ IF score_ciphers_raises(ciphers, answers)
       THEN pc' = "raised" /\ scores' = scores
       ELSE pc' = "sort" /\ scores' = score_ciphers(ciphers, answers)
    /\ UNCHANGED <<dataVars, askVars, prompts, cipher_idx, attr_idx,
                   reportVars, normVars>>

MainSort ==
    /\ pc = "sort"
    /\ sorted_ciphers' = sorted_desc(scores)
    /\ pc' = "report"
    /\ UNCHANGED <<dataVars, askVars, prompts, scoreVars, printed, normVars>>

\* for cipher, score in sorted_ciphers[:2]: print(...)
MainReport ==
    /\ pc = "report"
    /\ printed' = [k \in 1..Min(2, Len(sorted_ciphers)) |->
                      <<sorted_ciphers[k][1], sorted_ciphers[k][2],
                        Explanation(ciphers, sorted_ciphers[k][1])>>]
    /\ pc' = "done"
    /\ UNCHANGED <<dataVars, askVars, prompts, scoreVars, sorted_ciphers,
                   normVars>>

(***************************************************************************)
(* SpecMain: one run of main over a file and the lines typed.              *)
(***************************************************************************)
Headers ==
    {required_columns,
     Tail(required_columns),
     SubSeq(required_columns, 1, Len(required_columns) - 1)}

MainRows == {RowAES, RowBlowfish, RowTwofish, RowShort}

RowSeqs == UNION {[1..n -> MainRows] : n \in 0..MaxRows}

Files ==
    {NoFile, EmptyFile}
        \cup {[exists |-> TRUE, rows |-> <<h>> \o d] :
                 h \in Headers, d \in RowSeqs}

MainInputs == {"yes", "no", " I don't know", "Maybe"}

MainInit ==
    /\ pc = "load"
    /\ file \in Files
    /\ ciphers = <<>> /\ answers = <<>> /\ q = 0
    /\ IdleAsk /\ IdleScore /\ IdleReport /\ IdleNorm

MainNext ==
    \/ MainLoad
    \/ \E r \in MainInputs : MainAsk(r)
    \/ MainScore
    \/ MainSort
    \/ MainReport

SpecMain == MainInit /\ [][MainNext]_vars

\* Position of a candidate's first record in the dataset.
FirstIndex(name) ==
    CHOOSE n \in 1..Len(ciphers) :
        /\ ciphers[n]["Cipher"] = name
        /\ \A m \in 1..Len(ciphers) : ciphers[m]["Cipher"] = name => n <= m

\* C5: the report is at most the first two candidates of the score map
\* sorted by score, highest first, and candidates with equal scores keep
\* the order in which they appear in the dataset.
C5_TopTwoStable ==
    /\ pc \in {"report", "done"} =>
        /\ Len(sorted_ciphers) = Len(scores)
        /\ Range(sorted_ciphers) = Range(scores)
        /\ \A a, b \in 1..Len(sorted_ciphers) :
              a < b =>
                /\ sorted_ciphers[a][2] >= sorted_ciphers[b][2]
                /\ sorted_ciphers[a][2] = sorted_ciphers[b][2]
                     => FirstIndex(sorted_ciphers[a][1])
                            < FirstIndex(sorted_ciphers[b][1])
    /\ pc = "done" =>
        /\ Len(printed) = Min(2, Len(scores))
        /\ \A k \in 1..Len(printed) :
              /\ printed[k][1] = sorted_ciphers[k][1]
              /\ printed[k][2] = sorted_ciphers[k][2]

\* Three candidates, the first of the dataset scoring lowest and the other
\* two tied: the tied two are reported in dataset order.
C5_Witness ==
    /\ pc = "done"
    /\ [n \in 1..Len(ciphers) |-> ciphers[n]["Cipher"]]
          = <<"Blowfish", "AES", "Twofish">>
    /\ Len(printed) = 2
    /\ printed[1][1] = "AES" /\ printed[2][1] = "Twofish"
    /\ printed[1][2] = printed[2][2]
    /\ DictGet(scores, "Blowfish") < printed[1][2]

\* Whether reading the file is one of the failures of the loader's contract:
\* no file, an empty file, a required column missing from the header, or a
\* row whose number of fields is not the header's.
FileFailure(f) ==
    \/ ~f.exists
    \/ f.rows = <<>>
    \/ \E n \in 1..Len(required_columns) :
          required_columns[n] \notin Range(Head(f.rows))
    \/ \E n \in 2..Len(f.rows) : Len(f.rows[n]) # Len(Head(f.rows))

\* C6: load_table returns the empty list on any failure (missing file, empty
\* file, malformed row, missing required column), and every record of a
\* non-empty result has all six required keys.
C6_LoaderContract ==
    pc # "load" =>
        /\ FileFailure(file) => ciphers = <<>>
        /\ \A n \in 1..Len(ciphers) :
              Range(required_columns) \subseteq DOMAIN ciphers[n]

\* The dataset and the answers of the end-to-end scenario.
E2EFile ==
    [exists |-> TRUE, rows |-> <<required_columns, RowAES, RowBlowfish>>]

\* C9: on the two-row dataset (AES, Blowfish), "yes" is stored as "High" and
\* "i don't know" as "unknown"; with Security Level answered "yes" and the
\* other four questions "i don't know", AES scores 3 and Blowfish 0, and the
\* report lists AES with 3, then Blowfish with 0.
C9_EndToEnd ==
    /\ [](/\ file = E2EFile
          /\ pc = "done"
          /\ AnswerValues
                = <<"High", "unknown", "unknown", "unknown", "unknown">>
          => /\ scores = <<<<"AES", 3>>, <<"Blowfish", 0>>>>
             /\ Len(printed) = 2
             /\ printed[1][1] = "AES" /\ printed[1][2] = 3
             /\ printed[2][1] = "Blowfish" /\ printed[2][2] = 0)
    /\ [][pc = "ask" /\ q' = q + 1 =>
            /\ response' = "yes"
                 => answers'[q] = <<QuestionAttributes[q], "High">>
            /\ response' = "i don't know"
                 => answers'[q] = <<QuestionAttributes[q], "unknown">>]_vars

C9_Witness ==
    /\ file = E2EFile
    /\ pc = "done"
    /\ AnswerValues = <<"High", "unknown", "unknown", "unknown", "unknown">>
    /\ printed = <<<<"AES", 3, "No explanation available">>,
                   <<"Blowfish", 0, "No explanation available">>>>

\* C10: a run of main moves only along Load -> Ask (five questions in
\* order, each possibly prompting again) -> Score -> Sort -> Report; the
\* only other move is the exit after load_table returned an empty result,
\* after which nothing is asked, scored or reported; scoring starts only
\* with all five answers stored.
C10_LinearFlow ==
    [][/\ pc = "load" =>
            \/ pc' = "exit" /\ ciphers' = <<>>
            \/ pc' = "ask" /\ ciphers' # <<>> /\ q' = 1
       /\ pc = "exit" => FALSE
       /\ pc = "ask" =>
            \/ pc' = "ask" /\ q' = q /\ answers' = answers
            \/ pc' = "ask" /\ q' = q + 1 /\ Len(answers') = q
            \/ pc' = "score" /\ q = Len(QuestionAttributes)
                 /\ Len(answers') = Len(QuestionAttributes)
       /\ pc = "score" => pc' = "sort"
       /\ pc = "sort" => pc' = "report"
       /\ pc = "report" => pc' = "done"
       /\ pc = "done" => FALSE]_vars

====
